---- MODULE Spec2Model ----
(***************************************************************************)
(* SportingClubService (lib/db): the IndexedDB-backed store of sports,     *)
(* members and subscriptions, with its unique indexes, its seeding on      *)
(* init, and its joined views; and the hooks of useSportingClub that call  *)
(* it.                                                                     *)
(*                                                                         *)
(* Spec: every public method is one action; the service is driven by one   *)
(* caller that awaits each call before issuing the next.  `last` is the    *)
(* call that has just settled (its arguments and its outcome) until the    *)
(* caller takes the outcome (Return); the three object stores persist      *)
(* across close()/init().                                                  *)
(*                                                                         *)
(* SpecAsync: callers do not wait for one another; a method that awaits    *)
(* between two requests is split at the await and `calls` holds the        *)
(* suspended calls.                                                        *)
(*                                                                         *)
(* SpecHooks: the service is called through useSports, useMembers and      *)
(* useSubscriptions; `hook` holds their isInitialized, error and list.     *)
(***************************************************************************)
EXTENDS Integers, Sequences, FiniteSets, TLC

\* ------------------------------------------------------------------ bounds
MaxIds == 10        \* how many ids crypto.randomUUID() hands out in a run
MaxOps == 5         \* how many calls the caller issues in a run
MaxTasks == 2       \* how many calls are suspended at an await at once
MaxCalls == 3       \* how many calls are issued in a run of overlapping calls

\* ------------------------------------------------------------ input spaces
Unset == "<unset>"  \* a key missing from a Partial<> argument
Ids == 1..MaxIds
NoId == MaxIds + 1  \* an id string that randomUUID never produced

SportNames == {"Football", "Chess"}
Emails == {"a@b.com", "c@d.com"}

\* Omit<Sport, 'id' | 'createdAt' | 'updatedAt'>
SportInputs ==
    [name : SportNames, description : {"-"}, category : {"Board"}]

\* Omit<Member, 'id' | 'createdAt' | 'updatedAt'>
MemberInputs ==
    [firstName : {"Ann"}, email : Emails, status : {"active"}]

\* Partial<Omit<Sport, 'id' | 'createdAt'>>
SportUpdates ==
    {[name |-> "Chess", category |-> Unset], [name |-> Unset, category |-> "Board"]}

\* Partial<Omit<Member, 'id' | 'createdAt'>>
MemberUpdates ==
    {[email |-> "a@b.com", status |-> Unset], [email |-> Unset, status |-> "inactive"]}

\* ------------------------------------------------------------------- state
VARIABLES
    db,             \* this.db: TRUE when it holds an open database, FALSE for null
    sports,         \* object store 'sports' (keyPath id)
    members,        \* object store 'members' (keyPath id, unique index by-email)
    subscriptions,  \* object store 'subscriptions' (unique index by-member-sport)
    issued,         \* how many values crypto.randomUUID() has returned
    ops,            \* calls issued so far
    last,           \* the call that has just settled: op, arguments, outcome
    calls,          \* the calls suspended at an await, by task
    hook            \* the state of useSports, useMembers and useSubscriptions

vars == <<db, sports, members, subscriptions, issued, ops, last, calls, hook>>
stores == <<sports, members, subscriptions>>

\* ------------------------------------------------------------ error values
ErrNotInitialized == "Database not initialized. Call init() first."
ErrSportNotFound == "Sport not found"
ErrMemberNotFound == "Member not found"
ErrSubscriptionNotFound == "Subscription not found"
ErrAlreadySubscribed == "Member is already subscribed to this sport"
ErrConstraint == "ConstraintError"
NoError == ""

\* -------------------------------------------------- object-store primitives
\* A primitive yields [ok, store]: the request either commits or its
\* transaction aborts and the store is as before.

ById(store, id) == {r \in store : r.id = id}

\* db.add('sports', r): the key must be new.
SportsAdd(store, r) ==
    IF ById(store, r.id) # {}
    THEN [ok |-> FALSE, store |-> store]
    ELSE [ok |-> TRUE, store |-> store \cup {r}]

\* db.put('sports', r): insert or replace by key.
SportsPut(store, r) ==
    [ok |-> TRUE, store |-> (store \ ById(store, r.id)) \cup {r}]

\* db.delete(store, id): remove by key; no error when the key is absent.
StoreDelete(store, id) == store \ ById(store, id)

\* Variant: a by-email index that is not unique.
MembersAddUnchecked(store, r) ==
    IF ById(store, r.id) # {}
    THEN [ok |-> FALSE, store |-> store]
    ELSE [ok |-> TRUE, store |-> store \cup {r}]

\* db.add('members', r): the key must be new and by-email is unique.
MembersAdd(store, r) ==
    IF ById(store, r.id) # {} \/ \E x \in store : x.email = r.email
    THEN [ok |-> FALSE, store |-> store]
    ELSE [ok |-> TRUE, store |-> store \cup {r}]

\* Variant: a put made of a delete and an add, the add turned down.
MembersPutTorn(store, r) ==
    IF \E x \in store : x.id # r.id /\ x.email = r.email
    THEN [ok |-> FALSE, store |-> store \ ById(store, r.id)]
    ELSE [ok |-> TRUE, store |-> (store \ ById(store, r.id)) \cup {r}]

\* db.put('members', r): replace by key; by-email is unique among the others.
MembersPut(store, r) ==
    IF \E x \in store : x.id # r.id /\ x.email = r.email
    THEN [ok |-> FALSE, store |-> store]
    ELSE [ok |-> TRUE, store |-> (store \ ById(store, r.id)) \cup {r}]

\* Variant: a by-member-sport index that is not unique.
SubscriptionsAddUnchecked(store, r) ==
    IF ById(store, r.id) # {}
    THEN [ok |-> FALSE, store |-> store]
    ELSE [ok |-> TRUE, store |-> store \cup {r}]

\* db.add('subscriptions', r): the key must be new and by-member-sport is unique.
SubscriptionsAdd(store, r) ==
    IF \/ ById(store, r.id) # {}
       \/ \E x \in store : x.memberId = r.memberId /\ x.sportId = r.sportId
    THEN [ok |-> FALSE, store |-> store]
    ELSE [ok |-> TRUE, store |-> store \cup {r}]

\* db.put('subscriptions', r): replace by key; the pair is unique among the others.
SubscriptionsPut(store, r) ==
    IF \E x \in store :
          x.id # r.id /\ x.memberId = r.memberId /\ x.sportId = r.sportId
    THEN [ok |-> FALSE, store |-> store]
    ELSE [ok |-> TRUE, store |-> (store \ ById(store, r.id)) \cup {r}]

\* ----------------------------------------------------------------- helpers
\* Variant: an id source that repeats itself.
RandomUUIDRepeats(n) == (n % 2) + 1

\* crypto.randomUUID(), n values returned before: a value no earlier call returned.
RandomUUID(n) == n + 1

\* new Date(): the clock advances between calls, and the k-th call of a run
\* reads it at instant k.
Now == {ops + 1}

\* Variant: the record is replaced by the partial, unset fields included.
MergeReplaces(rec, upd) ==
    [f \in DOMAIN rec |-> IF f \in DOMAIN upd THEN upd[f] ELSE rec[f]]

\* { ...record, ...updates }: the keys present in updates win.
Merge(rec, upd) ==
    [f \in DOMAIN rec |->
        IF f \in DOMAIN upd /\ upd[f] # Unset THEN upd[f] ELSE rec[f]]

Call(op, id, m, s, arg, ok, error, ret) ==
    [op |-> op, id |-> id, m |-> m, s |-> s, arg |-> arg,
     ok |-> ok, error |-> error, ret |-> ret]

\* No call is in progress: the caller has seen the outcome of its latest call.
NoCall == Call("", NoId, NoId, NoId, {}, TRUE, NoError, {})
Idle == last = NoCall

\* The caller issues its next call.
Begin == Idle /\ ops < MaxOps /\ ops' = ops + 1

\* Variant: ensureDB() lets the call through and the call does nothing.
NotInitializedPasses(op, id, m, s, arg) ==
    /\ last' = Call(op, id, m, s, arg, TRUE, NoError, {})
    /\ UNCHANGED <<db, sports, members, subscriptions, issued>>

\* ensureDB() threw: the call rejects and nothing was touched.
NotInitialized(op, id, m, s, arg) ==
    /\ last' = Call(op, id, m, s, arg, FALSE, ErrNotInitialized, {})
    /\ UNCHANGED <<db, sports, members, subscriptions, issued>>

\* ------------------------------------------------------------------- reads
\* A read settles with [ok, error, ret]; an absent record is ret = {}.
Resolved(value) == [ok |-> TRUE, error |-> NoError, ret |-> value]
Rejected(error) == [ok |-> FALSE, error |-> error, ret |-> {}]

\* What getAll / getAllFromIndex return: the records in key order.
InKeyOrder(store) ==
    [i \in 1..Cardinality(store) |->
        CHOOSE r \in store : Cardinality({x \in store : x.id < r.id}) = i - 1]

GetSport(id) ==
    IF ~db THEN Rejected(ErrNotInitialized) ELSE Resolved(ById(sports, id))

GetAllSports ==
    IF ~db THEN Rejected(ErrNotInitialized) ELSE Resolved(InKeyOrder(sports))

GetMember(id) ==
    IF ~db THEN Rejected(ErrNotInitialized) ELSE Resolved(ById(members, id))

GetAllMembers ==
    IF ~db THEN Rejected(ErrNotInitialized) ELSE Resolved(InKeyOrder(members))

\* Variant: the lookup goes through by-member and ignores the sport.
GetSubscriptionByMember(m, s) ==
    LET hits == {r \in subscriptions : r.memberId = m}
    IN  {r \in hits : \A x \in hits : r.id <= x.id}

\* getSubscription(m, s), db open: getFromIndex('by-member-sport', [m, s]),
\* the first record of the pair in key order, or absent.
GetSubscription(m, s) ==
    LET hits == {r \in subscriptions : r.memberId = m /\ r.sportId = s}
    IN  {r \in hits : \A x \in hits : r.id <= x.id}

\* getSubscription(m, s) as a caller sees it: ensureDB() is outside the try.
EnsuredGetSubscription(m, s) ==
    IF ~db THEN Rejected(ErrNotInitialized) ELSE Resolved(GetSubscription(m, s))

GetMemberSubscriptions(memberId) ==
    IF ~db THEN Rejected(ErrNotInitialized)
    ELSE Resolved(InKeyOrder({r \in subscriptions : r.memberId = memberId}))

GetSportSubscriptions(sportId) ==
    IF ~db THEN Rejected(ErrNotInitialized)
    ELSE Resolved(InKeyOrder({r \in subscriptions : r.sportId = sportId}))

GetAllSubscriptions ==
    IF ~db THEN Rejected(ErrNotInitialized) ELSE Resolved(InKeyOrder(subscriptions))

\* Variant: no filter on status.
IsActiveAlways(sub) == TRUE

\* sub => sub.status === 'active'
IsActive(sub) == sub.status = "active"

\* Variant: no filter; a lookup that found nothing leaves an entry that holds
\* the id alone.
FoundOrAbsent(store, ids) ==
    [i \in 1..Len(ids) |->
        IF ById(store, ids[i]) = {} THEN [id |-> ids[i]]
        ELSE CHOOSE r \in ById(store, ids[i]) : TRUE]

\* list.filter(Boolean) over the results of Promise.all(ids.map(get)): the
\* records found, in the order of the ids.
RECURSIVE Found(_, _)
Found(store, ids) ==
    IF ids = <<>> THEN <<>>
    ELSE LET hit == ById(store, Head(ids))
         IN  (IF hit = {} THEN <<>> ELSE <<CHOOSE r \in hit : TRUE>>)
             \o Found(store, Tail(ids))

\* { ...record, ...extra }
Spread(rec, extra) ==
    [f \in DOMAIN rec \cup DOMAIN extra |->
        IF f \in DOMAIN extra THEN extra[f] ELSE rec[f]]

GetMemberWithSports(memberId) ==
    IF ~db THEN Rejected(ErrNotInitialized)
    ELSE IF ById(members, memberId) = {} THEN Resolved({})
    ELSE LET member == CHOOSE r \in ById(members, memberId) : TRUE
             activeSubscriptions ==
                 SelectSeq(GetMemberSubscriptions(memberId).ret, IsActive)
             sportIds == [i \in 1..Len(activeSubscriptions) |->
                             activeSubscriptions[i].sportId]
         IN  Resolved({Spread(member,
                 [sports |-> Found(sports, sportIds),
                  subscriptions |-> activeSubscriptions])})

GetSportWithMembers(sportId) ==
    IF ~db THEN Rejected(ErrNotInitialized)
    ELSE IF ById(sports, sportId) = {} THEN Resolved({})
    ELSE LET sport == CHOOSE r \in ById(sports, sportId) : TRUE
             activeSubscriptions ==
                 SelectSeq(GetSportSubscriptions(sportId).ret, IsActive)
             memberIds == [i \in 1..Len(activeSubscriptions) |->
                              activeSubscriptions[i].memberId]
         IN  Resolved({Spread(sport,
                 [members |-> Found(members, memberIds),
                  subscriptions |-> activeSubscriptions,
                  memberCount |-> Len(activeSubscriptions)])})

\* ------------------------------------------------------------------ init
InitialSports ==
    << [name |-> "Football", description |-> "Association football",
        category |-> "Team Sports"],
       [name |-> "Basketball", description |-> "Indoor basketball",
        category |-> "Team Sports"],
       [name |-> "Tennis", description |-> "Individual or doubles tennis",
        category |-> "Racquet Sports"],
       [name |-> "Swimming", description |-> "Competitive swimming",
        category |-> "Water Sports"],
       [name |-> "Volleyball", description |-> "Indoor volleyball",
        category |-> "Team Sports"] >>

\* { ...input, id, createdAt: now, updatedAt: now }
Stamp(input, id, now) ==
    [f \in DOMAIN input \cup {"id", "createdAt", "updatedAt"} |->
        IF f = "id" THEN id
        ELSE IF f \in {"createdAt", "updatedAt"} THEN now
        ELSE input[f]]

\* for (const sport of initialSports) await this.addSport(sport): the loop from
\* its i-th sport on, n ids issued so far; the first rejected add ends it.
RECURSIVE SeedFrom(_, _, _, _)
SeedFrom(i, store, n, now) ==
    IF i > Len(InitialSports)
    THEN [ok |-> TRUE, store |-> store, issued |-> n]
    ELSE LET res == SportsAdd(store, Stamp(InitialSports[i], RandomUUID(n), now))
         IN  IF res.ok
             THEN SeedFrom(i + 1, res.store, n + 1, now)
             ELSE [ok |-> FALSE, store |-> res.store, issued |-> n + 1]

\* Variant: the starter set is added whatever the store holds.
SeedInitialDataAlways(store, n, now) ==
    SeedFrom(1, store, n, now)

\* seedInitialData(): seeds only when getAllSports() is empty.
SeedInitialData(store, n, now) ==
    IF store = {}
    THEN SeedFrom(1, store, n, now)
    ELSE [ok |-> TRUE, store |-> store, issued |-> n]

\* init(): this.db = await openDB(...); await this.seedInitialData()
ServiceInit ==
    /\ Begin
    /\ sports = {} => issued + Len(InitialSports) <= MaxIds
    /\ \E now \in Now :
         LET res == SeedInitialData(sports, issued, now)
         IN  /\ db' = TRUE
             /\ sports' = res.store
             /\ issued' = res.issued
             /\ last' = Call("init", NoId, NoId, NoId, {}, res.ok,
                             IF res.ok THEN NoError ELSE ErrConstraint, {})
    /\ UNCHANGED <<members, subscriptions>>

\* close(): if (this.db) { this.db.close(); this.db = null }
Close ==
    /\ Begin
    /\ db' = FALSE
    /\ last' = Call("close", NoId, NoId, NoId, {}, TRUE, NoError, {})
    /\ UNCHANGED <<sports, members, subscriptions, issued>>

\* ------------------------------------------------------------------ sports
AddSport(input) ==
    /\ Begin
    /\ IF ~db THEN NotInitialized("addSport", NoId, NoId, NoId, {input})
       ELSE /\ issued < MaxIds
            /\ \E now \in Now :
                 LET r == Stamp(input, RandomUUID(issued), now)
                     res == SportsAdd(sports, r)
                 IN  /\ sports' = res.store
                     /\ issued' = issued + 1
                     /\ last' = Call("addSport", r.id, NoId, NoId, {input}, res.ok,
                                     IF res.ok THEN NoError ELSE ErrConstraint,
                                     IF res.ok THEN {r} ELSE {})
            /\ UNCHANGED <<db, members, subscriptions>>

UpdateSport(id, updates) ==
    /\ Begin
    /\ IF ~db THEN NotInitialized("updateSport", id, NoId, NoId, {updates})
       ELSE IF ById(sports, id) = {}
       THEN /\ last' = Call("updateSport", id, NoId, NoId, {updates}, FALSE,
                            ErrSportNotFound, {})
            /\ UNCHANGED <<db, sports, members, subscriptions, issued>>
       ELSE \E now \in Now :
              LET sport == CHOOSE r \in ById(sports, id) : TRUE
                  updatedSport == [Merge(sport, updates) EXCEPT !.updatedAt = now]
                  res == SportsPut(sports, updatedSport)
              IN  /\ sports' = res.store
                  /\ last' = Call("updateSport", id, NoId, NoId, {updates}, TRUE,
                                  NoError, {updatedSport})
                  /\ UNCHANGED <<db, members, subscriptions, issued>>

\* Variant: a delete that is turned down while subscriptions refer to the sport.
DeleteSportUnlessReferenced(id) ==
    /\ Begin
    /\ IF ~db THEN NotInitialized("deleteSport", id, NoId, NoId, {})
       ELSE LET referenced == \E r \in subscriptions : r.sportId = id
            IN  /\ sports' = IF referenced THEN sports ELSE StoreDelete(sports, id)
                /\ last' = Call("deleteSport", id, NoId, NoId, {}, ~referenced,
                                IF referenced THEN ErrConstraint ELSE NoError, {})
                /\ UNCHANGED <<db, members, subscriptions, issued>>

DeleteSport(id) ==
    /\ Begin
    /\ IF ~db THEN NotInitialized("deleteSport", id, NoId, NoId, {})
       ELSE /\ sports' = StoreDelete(sports, id)
            /\ last' = Call("deleteSport", id, NoId, NoId, {}, TRUE, NoError, {})
            /\ UNCHANGED <<db, members, subscriptions, issued>>

\* ----------------------------------------------------------------- members
AddMember(input) ==
    /\ Begin
    /\ IF ~db THEN NotInitialized("addMember", NoId, NoId, NoId, {input})
       ELSE /\ issued < MaxIds
            /\ \E now \in Now :
                 LET r == Stamp(input, RandomUUID(issued), now)
                     res == MembersAdd(members, r)
                 IN  /\ members' = res.store
                     /\ issued' = issued + 1
                     /\ last' = Call("addMember", r.id, NoId, NoId, {input}, res.ok,
                                     IF res.ok THEN NoError ELSE ErrConstraint,
                                     IF res.ok THEN {r} ELSE {})
            /\ UNCHANGED <<db, sports, subscriptions>>

UpdateMember(id, updates) ==
    /\ Begin
    /\ IF ~db THEN NotInitialized("updateMember", id, NoId, NoId, {updates})
       ELSE IF ById(members, id) = {}
       THEN /\ last' = Call("updateMember", id, NoId, NoId, {updates}, FALSE,
                            ErrMemberNotFound, {})
            /\ UNCHANGED <<db, sports, members, subscriptions, issued>>
       ELSE \E now \in Now :
              LET member == CHOOSE r \in ById(members, id) : TRUE
                  updatedMember == [Merge(member, updates) EXCEPT !.updatedAt = now]
                  res == MembersPut(members, updatedMember)
              IN  /\ members' = res.store
                  /\ last' = Call("updateMember", id, NoId, NoId, {updates}, res.ok,
                                  IF res.ok THEN NoError ELSE ErrConstraint,
                                  IF res.ok THEN {updatedMember} ELSE {})
                  /\ UNCHANGED <<db, sports, subscriptions, issued>>

\* Variant: the member's subscriptions go with the member.
DeleteMemberCascades(id) ==
    /\ Begin
    /\ IF ~db THEN NotInitialized("deleteMember", id, NoId, NoId, {})
       ELSE /\ members' = StoreDelete(members, id)
            /\ subscriptions' = {r \in subscriptions : r.memberId # id}
            /\ last' = Call("deleteMember", id, NoId, NoId, {}, TRUE, NoError, {})
            /\ UNCHANGED <<db, sports, issued>>

DeleteMember(id) ==
    /\ Begin
    /\ IF ~db THEN NotInitialized("deleteMember", id, NoId, NoId, {})
       ELSE /\ members' = StoreDelete(members, id)
            /\ last' = Call("deleteMember", id, NoId, NoId, {}, TRUE, NoError, {})
            /\ UNCHANGED <<db, sports, subscriptions, issued>>

\* ----------------------------------------------------------- subscriptions
\* if (existing && existing.status === 'active') throw ...
\* Variant: the check looks for the wrong status.
AlreadySubscribedIfCancelled(existing) ==
    \E e \in existing : e.status = "cancelled"

AlreadySubscribed(existing) == \E e \in existing : e.status = "active"

SubscribeMemberToSport(memberId, sportId) ==
    /\ Begin
    /\ IF ~db THEN NotInitialized("subscribeMemberToSport", NoId, memberId, sportId, {})
       ELSE IF AlreadySubscribed(GetSubscription(memberId, sportId))
       THEN /\ last' = Call("subscribeMemberToSport", NoId, memberId, sportId, {},
                            FALSE, ErrAlreadySubscribed, {})
            /\ UNCHANGED <<db, sports, members, subscriptions, issued>>
       ELSE /\ issued < MaxIds
            /\ \E now \in Now :
                 LET subscriptionData ==
                         [id |-> RandomUUID(issued), memberId |-> memberId,
                          sportId |-> sportId, subscriptionDate |-> now,
                          status |-> "active", createdAt |-> now, updatedAt |-> now]
                     res == SubscriptionsAdd(subscriptions, subscriptionData)
                 IN  /\ subscriptions' = res.store
                     /\ issued' = issued + 1
                     /\ last' = Call("subscribeMemberToSport", subscriptionData.id,
                                     memberId, sportId, {}, res.ok,
                                     IF res.ok THEN NoError ELSE ErrConstraint,
                                     IF res.ok THEN {subscriptionData} ELSE {})
            /\ UNCHANGED <<db, sports, members>>

\* Variant: the copy bumps updatedAt and leaves status alone.
CancelledKeepsStatus(subscription, now) ==
    [subscription EXCEPT !.updatedAt = now]

\* { ...subscription, status: 'cancelled', updatedAt: new Date() }
Cancelled(subscription, now) ==
    [subscription EXCEPT !.status = "cancelled", !.updatedAt = now]

\* Variant: a subscription that is not active counts as not found.
CancelSubscriptionIfActive(memberId, sportId) ==
    /\ Begin
    /\ IF ~db THEN NotInitialized("cancelSubscription", NoId, memberId, sportId, {})
       ELSE IF ~AlreadySubscribed(GetSubscription(memberId, sportId))
       THEN /\ last' = Call("cancelSubscription", NoId, memberId, sportId, {},
                            FALSE, ErrSubscriptionNotFound, {})
            /\ UNCHANGED <<db, sports, members, subscriptions, issued>>
       ELSE \E now \in Now :
              LET subscription == CHOOSE r \in GetSubscription(memberId, sportId) : TRUE
                  updatedSubscription == Cancelled(subscription, now)
                  res == SubscriptionsPut(subscriptions, updatedSubscription)
              IN  /\ subscriptions' = res.store
                  /\ last' = Call("cancelSubscription", subscription.id, memberId,
                                  sportId, {}, res.ok,
                                  IF res.ok THEN NoError ELSE ErrConstraint,
                                  IF res.ok THEN {updatedSubscription} ELSE {})
                  /\ UNCHANGED <<db, sports, members, issued>>

CancelSubscription(memberId, sportId) ==
    /\ Begin
    /\ IF ~db THEN NotInitialized("cancelSubscription", NoId, memberId, sportId, {})
       ELSE IF GetSubscription(memberId, sportId) = {}
       THEN /\ last' = Call("cancelSubscription", NoId, memberId, sportId, {},
                            FALSE, ErrSubscriptionNotFound, {})
            /\ UNCHANGED <<db, sports, members, subscriptions, issued>>
       ELSE \E now \in Now :
              LET subscription == CHOOSE r \in GetSubscription(memberId, sportId) : TRUE
                  updatedSubscription == Cancelled(subscription, now)
                  res == SubscriptionsPut(subscriptions, updatedSubscription)
              IN  /\ subscriptions' = res.store
                  /\ last' = Call("cancelSubscription", subscription.id, memberId,
                                  sportId, {}, res.ok,
                                  IF res.ok THEN NoError ELSE ErrConstraint,
                                  IF res.ok THEN {updatedSubscription} ELSE {})
                  /\ UNCHANGED <<db, sports, members, issued>>

\* Variant: the transaction leaves the subscriptions store out.
ClearAllDataKeepsSubscriptions ==
    /\ Begin
    /\ IF ~db THEN NotInitialized("clearAllData", NoId, NoId, NoId, {})
       ELSE /\ sports' = {}
            /\ members' = {}
            /\ last' = Call("clearAllData", NoId, NoId, NoId, {}, TRUE, NoError, {})
            /\ UNCHANGED <<db, subscriptions, issued>>

\* clearAllData(): one readwrite transaction over the three stores.
ClearAllData ==
    /\ Begin
    /\ IF ~db THEN NotInitialized("clearAllData", NoId, NoId, NoId, {})
       ELSE /\ sports' = {}
            /\ members' = {}
            /\ subscriptions' = {}
            /\ last' = Call("clearAllData", NoId, NoId, NoId, {}, TRUE, NoError, {})
            /\ UNCHANGED <<db, issued>>

\* The caller awaits each call: it takes the outcome and is free to call again.
Return ==
    /\ ~Idle
    /\ last' = NoCall
    /\ UNCHANGED <<db, sports, members, subscriptions, issued, ops>>

\* ------------------------------------------------------- overlapping calls
\* A method that awaits one request and then issues another is two steps: the
\* call up to its first await, and its continuation.  A request takes effect
\* when it is issued (IndexedDB runs the transactions on a store in the order
\* they were created), so a method with one request is one step.
Tasks == 1..MaxTasks

\* A call suspended at an await: its arguments, the record it has read (rec)
\* and, for init(), the starter sport its loop adds next (i; 0 while openDB
\* is pending).
Suspended(op, id, m, s, arg, rec, i) ==
    [op |-> op, id |-> id, m |-> m, s |-> s, arg |-> arg, rec |-> rec, i |-> i]

Free == Suspended("", NoId, NoId, NoId, {}, {}, 0)
Quiet == \A t \in Tasks : calls[t] = Free

\* A call is issued while others are suspended; it takes the first free task.
Invoke(t) ==
    /\ Begin
    /\ ops < MaxCalls
    /\ calls[t] = Free
    /\ \A u \in Tasks : u < t => calls[u] # Free

\* The awaited request of task t has resolved and the method goes on.
Resume(t, op) == Idle /\ calls[t].op = op

Suspend(t, call) ==
    /\ calls' = [calls EXCEPT ![t] = call]
    /\ UNCHANGED last

\* The method's promise settles.
Settle(t, call) ==
    /\ calls' = [calls EXCEPT ![t] = Free]
    /\ last' = call

\* init() up to `await openDB(...)`.
InitCall(t) ==
    /\ Invoke(t)
    /\ Suspend(t, Suspended("init", NoId, NoId, NoId, {}, {}, 0))
    /\ UNCHANGED <<db, sports, members, subscriptions, issued, hook>>

\* openDB has resolved: this.db is assigned and seedInitialData() issues
\* getAllSports(); the loop runs if that list is empty.
InitOpened(t) ==
    /\ Resume(t, "init")
    /\ calls[t].i = 0
    /\ db' = TRUE
    /\ IF Len(InKeyOrder(sports)) = 0
       THEN Suspend(t, [calls[t] EXCEPT !.i = 1])
       ELSE Settle(t, Call("init", NoId, NoId, NoId, {}, TRUE, NoError, {}))
    /\ UNCHANGED <<sports, members, subscriptions, issued, ops, hook>>

\* One turn of `for (const sport of initialSports) await this.addSport(sport)`.
\* close() is issued only when no call is suspended (CloseWhenQuiet), so the
\* ensureDB() of this addSport finds the database.
InitSeed(t) ==
    /\ Resume(t, "init")
    /\ calls[t].i >= 1
    /\ issued < MaxIds
    /\ \E now \in Now :
         LET i == calls[t].i
             res == SportsAdd(sports, Stamp(InitialSports[i], RandomUUID(issued), now))
         IN  /\ sports' = res.store
             /\ issued' = issued + 1
             /\ IF res.ok /\ i < Len(InitialSports)
                THEN Suspend(t, [calls[t] EXCEPT !.i = i + 1])
                ELSE Settle(t, Call("init", NoId, NoId, NoId, {}, res.ok,
                                    IF res.ok THEN NoError ELSE ErrConstraint, {}))
    /\ UNCHANGED <<db, members, subscriptions, ops, hook>>

\* close() with no call suspended on the connection it closes.
CloseWhenQuiet ==
    /\ Quiet
    /\ ops < MaxCalls
    /\ Close
    /\ UNCHANGED <<calls, hook>>

\* subscribeMemberToSport up to `await this.getSubscription(...)` and the
\* status check on what that read returns.
SubscribeCall(t, memberId, sportId) ==
    /\ Invoke(t)
    /\ IF ~db
       THEN /\ NotInitialized("subscribeMemberToSport", NoId, memberId, sportId, {})
            /\ UNCHANGED calls
       ELSE IF AlreadySubscribed(GetSubscription(memberId, sportId))
       THEN /\ last' = Call("subscribeMemberToSport", NoId, memberId, sportId, {},
                            FALSE, ErrAlreadySubscribed, {})
            /\ UNCHANGED <<db, sports, members, subscriptions, issued, calls>>
       ELSE /\ Suspend(t, Suspended("subscribeMemberToSport", NoId, memberId,
                                     sportId, {}, {}, 0))
            /\ UNCHANGED <<db, sports, members, subscriptions, issued>>
    /\ UNCHANGED hook

\* The record is built and db.add('subscriptions', ...) is issued.
SubscribeInsert(t) ==
    /\ Resume(t, "subscribeMemberToSport")
    /\ issued < MaxIds
    /\ \E now \in Now :
         LET memberId == calls[t].m
             sportId == calls[t].s
             subscriptionData ==
                 [id |-> RandomUUID(issued), memberId |-> memberId,
                  sportId |-> sportId, subscriptionDate |-> now,
                  status |-> "active", createdAt |-> now, updatedAt |-> now]
             res == SubscriptionsAdd(subscriptions, subscriptionData)
         IN  /\ subscriptions' = res.store
             /\ issued' = issued + 1
             /\ Settle(t, Call("subscribeMemberToSport", subscriptionData.id,
                               memberId, sportId, {}, res.ok,
                               IF res.ok THEN NoError ELSE ErrConstraint,
                               IF res.ok THEN {subscriptionData} ELSE {}))
    /\ UNCHANGED <<db, sports, members, ops, hook>>

\* updateSport up to `await this.getSport(id)` and the check of what it read.
UpdateSportCall(t, id, updates) ==
    /\ Invoke(t)
    /\ IF ~db
       THEN /\ NotInitialized("updateSport", id, NoId, NoId, {updates})
            /\ UNCHANGED calls
       ELSE IF ById(sports, id) = {}
       THEN /\ last' = Call("updateSport", id, NoId, NoId, {updates}, FALSE,
                            ErrSportNotFound, {})
            /\ UNCHANGED <<db, sports, members, subscriptions, issued, calls>>
       ELSE /\ Suspend(t, Suspended("updateSport", id, NoId, NoId, {updates},
                                     ById(sports, id), 0))
            /\ UNCHANGED <<db, sports, members, subscriptions, issued>>
    /\ UNCHANGED hook

\* The merged copy of the record that was read is put.
UpdateSportPut(t) ==
    /\ Resume(t, "updateSport")
    /\ \E now \in Now, sport \in calls[t].rec, updates \in calls[t].arg :
         LET updatedSport == [Merge(sport, updates) EXCEPT !.updatedAt = now]
             res == SportsPut(sports, updatedSport)
         IN  /\ sports' = res.store
             /\ Settle(t, Call("updateSport", sport.id, NoId, NoId, {updates},
                               res.ok, IF res.ok THEN NoError ELSE ErrConstraint,
                               IF res.ok THEN {updatedSport} ELSE {}))
    /\ UNCHANGED <<db, members, subscriptions, issued, ops, hook>>

\* updateMember up to `await this.getMember(id)` and the check of what it read.
UpdateMemberCall(t, id, updates) ==
    /\ Invoke(t)
    /\ IF ~db
       THEN /\ NotInitialized("updateMember", id, NoId, NoId, {updates})
            /\ UNCHANGED calls
       ELSE IF ById(members, id) = {}
       THEN /\ last' = Call("updateMember", id, NoId, NoId, {updates}, FALSE,
                            ErrMemberNotFound, {})
            /\ UNCHANGED <<db, sports, members, subscriptions, issued, calls>>
       ELSE /\ Suspend(t, Suspended("updateMember", id, NoId, NoId, {updates},
                                     ById(members, id), 0))
            /\ UNCHANGED <<db, sports, members, subscriptions, issued>>
    /\ UNCHANGED hook

UpdateMemberPut(t) ==
    /\ Resume(t, "updateMember")
    /\ \E now \in Now, member \in calls[t].rec, updates \in calls[t].arg :
         LET updatedMember == [Merge(member, updates) EXCEPT !.updatedAt = now]
             res == MembersPut(members, updatedMember)
         IN  /\ members' = res.store
             /\ Settle(t, Call("updateMember", member.id, NoId, NoId, {updates},
                               res.ok, IF res.ok THEN NoError ELSE ErrConstraint,
                               IF res.ok THEN {updatedMember} ELSE {}))
    /\ UNCHANGED <<db, sports, subscriptions, issued, ops, hook>>

\* cancelSubscription up to `await this.getSubscription(...)` and the check
\* of what it read.
CancelCall(t, memberId, sportId) ==
    /\ Invoke(t)
    /\ IF ~db
       THEN /\ NotInitialized("cancelSubscription", NoId, memberId, sportId, {})
            /\ UNCHANGED calls
       ELSE IF GetSubscription(memberId, sportId) = {}
       THEN /\ last' = Call("cancelSubscription", NoId, memberId, sportId, {},
                            FALSE, ErrSubscriptionNotFound, {})
            /\ UNCHANGED <<db, sports, members, subscriptions, issued, calls>>
       ELSE /\ Suspend(t, Suspended("cancelSubscription", NoId, memberId, sportId,
                                     {}, GetSubscription(memberId, sportId), 0))
            /\ UNCHANGED <<db, sports, members, subscriptions, issued>>
    /\ UNCHANGED hook

CancelPut(t) ==
    /\ Resume(t, "cancelSubscription")
    /\ \E now \in Now, subscription \in calls[t].rec :
         LET updatedSubscription == Cancelled(subscription, now)
             res == SubscriptionsPut(subscriptions, updatedSubscription)
         IN  /\ subscriptions' = res.store
             /\ Settle(t, Call("cancelSubscription", subscription.id, calls[t].m,
                               calls[t].s, {}, res.ok,
                               IF res.ok THEN NoError ELSE ErrConstraint,
                               IF res.ok THEN {updatedSubscription} ELSE {}))
    /\ UNCHANGED <<db, sports, members, issued, ops, hook>>

\* ------------------------------------------------------------------- hooks
\* useSports, useMembers and useSubscriptions, one instance of each, every
\* one with its own useSportingClub state.  A hook call is one step: the
\* service call and, where the hook makes one, the reload that follows it.
HookNames == {"useSports", "useMembers", "useSubscriptions"}

\* useState(false), useState(null), useState([])
Unmounted == [isInitialized |-> FALSE, error |-> NoError, list |-> <<>>]

ErrHookNotInitialized == "Database not initialized"

\* result.filter(sub => sub.status === 'active')
ActiveOnly(list) == SelectSeq(list, LAMBDA sub : sub.status = "active")

\* What the hook's load reads from the service.
Loaded(h) ==
    IF h = "useSports" THEN GetAllSports
    ELSE IF h = "useMembers" THEN GetAllMembers
    ELSE [GetAllSubscriptions EXCEPT !.ret = ActiveOnly(@)]

\* executeOperation around a call that settled as `call`: setError(null),
\* and the message of what it threw.
Executed(st, call) ==
    [st EXCEPT !.error = IF call.ok THEN NoError ELSE call.error]

\* loadSports / loadMembers / loadSubscriptions:
\* const result = await executeOperation(...); if (result) setX(result)
Reload(st, read) ==
    IF ~st.isInitialized THEN [st EXCEPT !.error = ErrHookNotInitialized]
    ELSE IF read.ok THEN [st EXCEPT !.error = NoError, !.list = read.ret]
    ELSE [st EXCEPT !.error = read.error]

\* if (result): the call resolved with a record.
Truthy(call) == call.ok /\ call.ret # {}

\* Variant: the test of the add path, which undefined does not pass.
NotNullAsTruthy(call) == call.ok /\ call.ret # {}

\* if (result !== null): the call resolved, with undefined for a delete.
NotNull(call) == call.ok

\* The hook after a mutation that settled as `call`.
Mutated(st, call, reloads, read) ==
    IF reloads THEN Reload(Executed(st, call), read) ELSE Executed(st, call)

\* executeOperation on a hook whose init() has not resolved: the service is
\* not called.
NotMounted(h, op, id, m, s, arg) ==
    /\ Begin
    /\ last' = Call(op, id, m, s, arg, FALSE, ErrHookNotInitialized, {})
    /\ hook' = [hook EXCEPT ![h].error = ErrHookNotInitialized]
    /\ UNCHANGED <<db, sports, members, subscriptions, issued, calls>>

\* The mount effects of hook h: init(), setIsInitialized(true), and the load
\* that isInitialized triggers.
Mount(h) ==
    /\ ~hook[h].isInitialized
    /\ ServiceInit
    /\ hook' = [hook EXCEPT ![h] =
                  IF last'.ok
                  THEN Reload([@ EXCEPT !.isInitialized = TRUE, !.error = NoError],
                              Loaded(h)')
                  ELSE [@ EXCEPT !.error = last'.error]]
    /\ UNCHANGED calls

HookAddSport(sportData) ==
    IF ~hook["useSports"].isInitialized
    THEN NotMounted("useSports", "addSport", NoId, NoId, NoId, {sportData})
    ELSE /\ AddSport(sportData)
         /\ hook' = [hook EXCEPT !["useSports"] =
                       Mutated(@, last', Truthy(last'), Loaded("useSports")')]
         /\ UNCHANGED calls

HookDeleteSport(id) ==
    IF ~hook["useSports"].isInitialized
    THEN NotMounted("useSports", "deleteSport", id, NoId, NoId, {})
    ELSE /\ DeleteSport(id)
         /\ hook' = [hook EXCEPT !["useSports"] =
                       Mutated(@, last', NotNull(last'), Loaded("useSports")')]
         /\ UNCHANGED calls

HookAddMember(memberData) ==
    IF ~hook["useMembers"].isInitialized
    THEN NotMounted("useMembers", "addMember", NoId, NoId, NoId, {memberData})
    ELSE /\ AddMember(memberData)
         /\ hook' = [hook EXCEPT !["useMembers"] =
                       Mutated(@, last', Truthy(last'), Loaded("useMembers")')]
         /\ UNCHANGED calls

HookDeleteMember(id) ==
    IF ~hook["useMembers"].isInitialized
    THEN NotMounted("useMembers", "deleteMember", id, NoId, NoId, {})
    ELSE /\ DeleteMember(id)
         /\ hook' = [hook EXCEPT !["useMembers"] =
                       Mutated(@, last', NotNull(last'), Loaded("useMembers")')]
         /\ UNCHANGED calls

HookSubscribeMemberToSport(memberId, sportId) ==
    IF ~hook["useSubscriptions"].isInitialized
    THEN NotMounted("useSubscriptions", "subscribeMemberToSport", NoId, memberId,
                    sportId, {})
    ELSE /\ SubscribeMemberToSport(memberId, sportId)
         /\ hook' = [hook EXCEPT !["useSubscriptions"] =
                       Mutated(@, last', Truthy(last'), Loaded("useSubscriptions")')]
         /\ UNCHANGED calls

HookCancelSubscription(memberId, sportId) ==
    IF ~hook["useSubscriptions"].isInitialized
    THEN NotMounted("useSubscriptions", "cancelSubscription", NoId, memberId,
                    sportId, {})
    ELSE /\ CancelSubscription(memberId, sportId)
         /\ hook' = [hook EXCEPT !["useSubscriptions"] =
                       Mutated(@, last', Truthy(last'), Loaded("useSubscriptions")')]
         /\ UNCHANGED calls

\* ------------------------------------------------------------ specification
\* private db = null, over a database no session has written yet.
Init ==
    /\ db = FALSE
    /\ sports = {}
    /\ members = {}
    /\ subscriptions = {}
    /\ issued = 0
    /\ ops = 0
    /\ last = NoCall
    /\ calls = [t \in Tasks |-> Free]
    /\ hook = [h \in HookNames |-> Unmounted]

\* The ids a caller passes.  An id that no store holds and no subscription
\* refers to behaves as NoId does, and the starter sports differ in their
\* constants only: the caller addresses the sports named as its own inputs
\* are (the starter Football among them), the ids that subscriptions still
\* refer to, and NoId.
Addressed(sport) == sport.name \in SportNames

SportIdArgs ==
    {r.id : r \in {x \in sports : Addressed(x)}}
        \cup {r.sportId : r \in subscriptions} \cup {NoId}

MemberIdArgs ==
    {r.id : r \in members} \cup {r.memberId : r \in subscriptions} \cup {NoId}

\* The service called directly, one call at a time: no call is left suspended
\* and no hook is involved.
Direct == UNCHANGED <<calls, hook>>

Next ==
    \/ ServiceInit /\ Direct
    \/ Close /\ Direct
    \/ \E input \in SportInputs : AddSport(input) /\ Direct
    \/ \E id \in SportIdArgs, updates \in SportUpdates :
          UpdateSport(id, updates) /\ Direct
    \/ \E id \in SportIdArgs : DeleteSport(id) /\ Direct
    \/ \E input \in MemberInputs : AddMember(input) /\ Direct
    \/ \E id \in MemberIdArgs, updates \in MemberUpdates :
          UpdateMember(id, updates) /\ Direct
    \/ \E id \in MemberIdArgs : DeleteMember(id) /\ Direct
    \/ \E m \in MemberIdArgs, s \in SportIdArgs :
          SubscribeMemberToSport(m, s) /\ Direct
    \/ \E m \in MemberIdArgs, s \in SportIdArgs :
          CancelSubscription(m, s) /\ Direct
    \/ ClearAllData /\ Direct
    \/ Return /\ Direct

Spec == Init /\ [][Next]_vars

\* The service called by callers that do not wait for one another: up to
\* MaxTasks calls are suspended at an await while another call is issued.
\* A call of one request, issued while other calls are suspended.
Overlapping == ops < MaxCalls /\ UNCHANGED <<calls, hook>>

NextAsync ==
    \/ \E t \in Tasks : InitCall(t)
    \/ \E t \in Tasks : InitOpened(t)
    \/ \E t \in Tasks : InitSeed(t)
    \/ CloseWhenQuiet
    \/ \E input \in SportInputs : AddSport(input) /\ Overlapping
    \/ \E t \in Tasks, id \in SportIdArgs, updates \in SportUpdates :
          UpdateSportCall(t, id, updates)
    \/ \E t \in Tasks : UpdateSportPut(t)
    \/ \E id \in SportIdArgs : DeleteSport(id) /\ Overlapping
    \/ \E input \in MemberInputs : AddMember(input) /\ Overlapping
    \/ \E t \in Tasks, id \in MemberIdArgs, updates \in MemberUpdates :
          UpdateMemberCall(t, id, updates)
    \/ \E t \in Tasks : UpdateMemberPut(t)
    \/ \E id \in MemberIdArgs : DeleteMember(id) /\ Overlapping
    \/ \E t \in Tasks, m \in MemberIdArgs, s \in SportIdArgs : SubscribeCall(t, m, s)
    \/ \E t \in Tasks : SubscribeInsert(t)
    \/ \E t \in Tasks, m \in MemberIdArgs, s \in SportIdArgs : CancelCall(t, m, s)
    \/ \E t \in Tasks : CancelPut(t)
    \/ ClearAllData /\ Overlapping
    \/ Return /\ Direct

SpecAsync == Init /\ [][NextAsync]_vars

\* The service called through the hooks, each hook call awaited.
NextHooks ==
    \/ \E h \in HookNames : Mount(h)
    \/ \E sportData \in SportInputs : HookAddSport(sportData)
    \/ \E id \in SportIdArgs : HookDeleteSport(id)
    \/ \E memberData \in MemberInputs : HookAddMember(memberData)
    \/ \E id \in MemberIdArgs : HookDeleteMember(id)
    \/ \E m \in MemberIdArgs, s \in SportIdArgs : HookSubscribeMemberToSport(m, s)
    \/ \E m \in MemberIdArgs, s \in SportIdArgs : HookCancelSubscription(m, s)
    \/ Return /\ Direct

SpecHooks == Init /\ [][NextHooks]_vars

\* ------------------------------------------------------------------ claims
\* The subscription records of the pair (m, s) in a store.
OfPair(store, m, s) == {r \in store : r.memberId = m /\ r.sportId = s}
ActiveOfPair(store, m, s) == {r \in OfPair(store, m, s) : r.status = "active"}

\* The call that has just settled is `op`, issued on an open database.
Settles(op) == last'.op = op /\ Idle /\ db

\* The entries of a list.
Range(seq) == {seq[i] : i \in DOMAIN seq}

\* Every id a call can carry.
AnyId == Ids \cup {NoId}

\* C1: in every reachable state the subscriptions store holds at most one
\* record for any (memberId, sportId) pair, whatever its status.
C1_OneRecordPerPair ==
    \A a, b \in subscriptions :
        (a.memberId = b.memberId /\ a.sportId = b.sportId) => a = b

\* A subscribe on a pair that holds a cancelled record was turned down by the
\* by-member-sport index.
C1_Witness ==
    /\ last.op = "subscribeMemberToSport"
    /\ last.error = ErrConstraint
    /\ \E r \in OfPair(subscriptions, last.m, last.s) : r.status = "cancelled"

\* C2: subscribeMemberToSport(m, s) on a pair with no record succeeds and
\* leaves exactly one record of the pair, active; the same call issued next
\* (the pair has an active record) fails with 'Member is already subscribed
\* to this sport' and the one active record is still the only one.
C2_SecondSubscribeConflicts ==
    [][ Settles("subscribeMemberToSport") =>
          LET m == last'.m
              s == last'.s
          IN  /\ OfPair(subscriptions, m, s) = {} =>
                    /\ last'.ok
                    /\ last'.ret = ActiveOfPair(subscriptions', m, s)
                    /\ Cardinality(OfPair(subscriptions', m, s)) = 1
              /\ ActiveOfPair(subscriptions, m, s) # {} =>
                    /\ ~last'.ok
                    /\ last'.error = ErrAlreadySubscribed
                    /\ subscriptions' = subscriptions
                    /\ Cardinality(ActiveOfPair(subscriptions', m, s)) = 1
      ]_vars

\* The second of two subscribes in succession has failed.
C2_Witness ==
    /\ last.op = "subscribeMemberToSport"
    /\ last.error = ErrAlreadySubscribed
    /\ Cardinality(ActiveOfPair(subscriptions, last.m, last.s)) = 1

\* C3: subscribeMemberToSport(m, s) on a pair whose record is absent or
\* cancelled succeeds and leaves an active subscription of the pair.
C3_SubscribeSucceedsUnlessActive ==
    [][ (Settles("subscribeMemberToSport")
         /\ ActiveOfPair(subscriptions, last'.m, last'.s) = {}) =>
          /\ last'.ok
          /\ ActiveOfPair(subscriptions', last'.m, last'.s) # {}
      ]_vars

\* C4: no two members share an email; addMember with an email that a stored
\* member holds fails on the by-email index and the stored member stays
\* retrievable; updateMember to an email another member holds fails and
\* changes nothing.
C4_UniqueEmails(store) ==
    \A a, b \in store : a.email = b.email => a = b

C4_EmailUnique ==
    [][ /\ C4_UniqueEmails(members')
        /\ Settles("addMember") =>
             \A x \in members :
                (\E input \in last'.arg : input.email = x.email) =>
                    /\ ~last'.ok
                    /\ last'.error = ErrConstraint
                    /\ GetMember(x.id)' = Resolved({x})
                    /\ members' = members
        /\ Settles("updateMember") =>
             \A x \in members :
                (\E updates \in last'.arg :
                    x.id # last'.id /\ updates.email = x.email
                    /\ ById(members, last'.id) # {}) =>
                    /\ ~last'.ok
                    /\ last'.error = ErrConstraint
                    /\ stores' = stores
      ]_vars

\* updateMember was turned down: another member holds the email.
C4_Witness ==
    /\ last.op = "updateMember"
    /\ last.error = ErrConstraint
    /\ Cardinality(members) = 2

\* C5: a call that fails leaves the three stores as they were.
C5_FailureChangesNothing ==
    [][ (last' # NoCall /\ ~last'.ok) => stores' = stores ]_vars

\* A write was turned down by a unique index while all three stores held records.
C5_Witness ==
    /\ last.error = ErrConstraint
    /\ sports # {} /\ members # {} /\ subscriptions # {}

\* C6: addSport, and addMember with an email no stored member holds, succeed
\* and store a record under an id no record of that store had; a get with
\* the returned id then yields the input fields plus that id and
\* createdAt = updatedAt.
C6_Stored(input, id, got) ==
    /\ got.ok
    /\ \E r \in got.ret :
          /\ got.ret = {r}
          /\ DOMAIN r = DOMAIN input \cup {"id", "createdAt", "updatedAt"}
          /\ \A f \in DOMAIN input : r[f] = input[f]
          /\ r.id = id
          /\ r.createdAt = r.updatedAt

C6_AddThenGet ==
    [][ /\ Settles("addSport") =>
             /\ last'.ok
             /\ \A r \in sports : r.id # last'.id
             /\ \A id \in AnyId : id = last'.id =>
                    /\ \A input \in last'.arg : C6_Stored(input, id, GetSport(id)')
                    /\ \E r \in last'.ret : GetSport(id)'.ret = {r}
        /\ (Settles("addMember")
            /\ \A input \in last'.arg, x \in members : x.email # input.email) =>
             /\ last'.ok
             /\ \A r \in members : r.id # last'.id
             /\ \A id \in AnyId : id = last'.id =>
                    /\ \A input \in last'.arg : C6_Stored(input, id, GetMember(id)')
                    /\ \E r \in last'.ret : GetMember(id)'.ret = {r}
      ]_vars

\* A sport was added to a store that had lost one of its records.
C6_Witness ==
    /\ last.op = "addSport" /\ last.ok
    /\ ById(sports, last.id) # {}
    /\ Cardinality(sports) = Len(InitialSports)
    /\ members # {}

\* C7: after deleteSport(id) getSport(id) is absent and getAllSports() has
\* no record of that id, whether or not subscriptions refer to the sport.
C7_DeletedSportIsGone ==
    [][ Settles("deleteSport") =>
          /\ last'.ok
          /\ \A id \in AnyId : id = last'.id => GetSport(id)' = Resolved({})
          /\ GetAllSports'.ok
          /\ \A r \in Range(GetAllSports'.ret) : r.id # last'.id
      ]_vars

\* init, subscribe to the first starter sport, delete that sport.
C7_Witness ==
    /\ last.op = "deleteSport" /\ last.ok
    /\ last.id = 1 /\ ops = 3
    /\ \E r \in subscriptions : r.sportId = last.id /\ r.status = "active"

\* C8: cancelSubscription(m, s) on a pair with an active record keeps that
\* record under the same id, memberId and sportId with status cancelled;
\* then s is not among getMemberWithSports(m).sports and m is not among
\* getSportWithMembers(s).members.
C8_CancelKeepsRecord ==
    [][ Settles("cancelSubscription") =>
          \A old \in ActiveOfPair(subscriptions, last'.m, last'.s) :
             /\ last'.ok
             /\ \E new \in subscriptions' :
                   /\ new.id = old.id
                   /\ new.memberId = old.memberId
                   /\ new.sportId = old.sportId
                   /\ new.status = "cancelled"
                   /\ subscriptions' = (subscriptions \ {old}) \cup {new}
             /\ \A v \in GetMemberWithSports(old.memberId)'.ret :
                   \A i \in DOMAIN v.sports : v.sports[i].id # old.sportId
             /\ \A v \in GetSportWithMembers(old.sportId)'.ret :
                   \A i \in DOMAIN v.members : v.members[i].id # old.memberId
      ]_vars

\* A stored member's subscription to a stored sport was cancelled.
C8_Witness ==
    /\ last.op = "cancelSubscription" /\ last.ok
    /\ ById(members, last.m) # {}
    /\ ById(sports, last.s) # {}
    /\ \E r \in OfPair(subscriptions, last.m, last.s) : r.status = "cancelled"

\* C9: cancelSubscription(m, s) on a pair with no record fails with
\* 'Subscription not found' and creates no subscription record.
C9_CancelAbsentNotFound ==
    [][ (Settles("cancelSubscription")
         /\ OfPair(subscriptions, last'.m, last'.s) = {}) =>
          /\ ~last'.ok
          /\ last'.error = ErrSubscriptionNotFound
          /\ subscriptions' = subscriptions
      ]_vars

\* The member has a subscription, though not to the sport of the cancel.
C9_Witness ==
    /\ last.op = "cancelSubscription"
    /\ last.error = ErrSubscriptionNotFound
    /\ \E r \in subscriptions : r.memberId = last.m /\ r.sportId # last.s

\* C10: on an open database getMemberWithSports(m) of a stored member lists
\* exactly the stored sports to which m has an active subscription, each
\* once, and exactly the active subscription rows of m; for an id that is no
\* stored member it is absent.
C10_MemberWithSports ==
    db => \A m \in AnyId :
            LET got == GetMemberWithSports(m)
                active == {r \in subscriptions :
                              r.memberId = m /\ r.status = "active"}
            IN  /\ got.ok
                /\ ById(members, m) = {} => got.ret = {}
                /\ \A member \in ById(members, m) :
                      \E v \in got.ret :
                         /\ got.ret = {v}
                         /\ \A f \in DOMAIN member : v[f] = member[f]
                         /\ Range(v.sports) =
                               {s \in sports : \E r \in active : r.sportId = s.id}
                         /\ Len(v.sports) = Cardinality(Range(v.sports))
                         /\ Range(v.subscriptions) = active
                         /\ Len(v.subscriptions) = Cardinality(active)

\* One stored member, subscribed to Football and to nothing else, with a
\* cancelled subscription beside it.
C10_Witness ==
    /\ db
    /\ \E member \in members :
          /\ \E r \in subscriptions :
                r.memberId = member.id /\ r.status = "cancelled"
          /\ \E v \in GetMemberWithSports(member.id).ret :
                /\ Len(v.sports) = 1
                /\ v.sports[1].name = "Football"

\* C11: with the database open, for every stored sport s,
\* getSportWithMembers(s).memberCount is the length of
\* getSportWithMembers(s).members.
C11_MemberCountIsMembers ==
    db => \A s \in AnyId :
             \A v \in GetSportWithMembers(s).ret : v.memberCount = Len(v.members)

\* C12: the step in which clearAllData() takes effect empties the three
\* stores together, whatever they held, and getAllSports(), getAllMembers()
\* and getAllSubscriptions() then resolve to empty lists.
C12_ClearEmptiesAllTogether ==
    [][ Settles("clearAllData") =>
          /\ last'.ok
          /\ sports' = {} /\ members' = {} /\ subscriptions' = {}
          /\ GetAllSports' = Resolved(<<>>)
          /\ GetAllMembers' = Resolved(<<>>)
          /\ GetAllSubscriptions' = Resolved(<<>>)
      ]_vars

\* clearAllData() has settled as the fourth call, after init() and two calls
\* that drew an id each (a member and its subscription among them).
C12_Witness ==
    /\ last.op = "clearAllData" /\ last.ok
    /\ ops = 4 /\ issued = Len(InitialSports) + 2
    /\ sports = {} /\ members = {} /\ subscriptions = {}

\* C14: deleteSport(id) and deleteMember(id) leave the subscriptions store as
\* it was: every record that referred to the deleted sport or member is still
\* in getAllSubscriptions(), field for field.
C14_DeleteKeepsSubscriptions ==
    [][ (Settles("deleteSport") \/ Settles("deleteMember")) =>
          /\ last'.ok
          /\ subscriptions' = subscriptions
          /\ GetAllSubscriptions'.ok
          /\ \A r \in subscriptions :
                (r.sportId = last'.id \/ r.memberId = last'.id)
                   => r \in Range(GetAllSubscriptions'.ret)
      ]_vars

\* A member has been deleted and its active subscription is still stored.
C14_Witness ==
    /\ last.op = "deleteMember" /\ last.ok
    /\ ById(members, last.id) = {}
    /\ \E r \in subscriptions : r.memberId = last.id /\ r.status = "active"

\* C15 as stated: updateSport(id, partial) on an absent id fails with
\* 'Sport not found' and stores nothing; on a stored id it sets the fields of
\* partial and leaves every other field of the record, and every other
\* record, as it was.
C15_UpdateKeepsOtherFields ==
    [][ Settles("updateSport") =>
          /\ ById(sports, last'.id) = {} =>
                /\ ~last'.ok /\ last'.error = ErrSportNotFound
                /\ sports' = sports
          /\ \A old \in ById(sports, last'.id) :
                /\ last'.ok
                /\ {r \in sports' : r.id # old.id} = {r \in sports : r.id # old.id}
                /\ \A partial \in last'.arg :
                     \E new \in sports' :
                        /\ new.id = old.id
                        /\ \A f \in DOMAIN old :
                              new[f] = IF f \in DOMAIN partial /\ partial[f] # Unset
                                       THEN partial[f] ELSE old[f]
      ]_vars

\* C15: updateSport(id, partial) on an absent id fails with 'Sport not found'
\* and stores nothing; on a stored id it sets the fields of partial, sets
\* updatedAt to the time of the call, and leaves id, createdAt, every other
\* field of the record and every other record as they were.
C15_UpdateKeepsOtherFieldsButUpdatedAt ==
    [][ Settles("updateSport") =>
          /\ ById(sports, last'.id) = {} =>
                /\ ~last'.ok /\ last'.error = ErrSportNotFound
                /\ sports' = sports
          /\ \A old \in ById(sports, last'.id) :
                /\ last'.ok
                /\ {r \in sports' : r.id # old.id} = {r \in sports : r.id # old.id}
                /\ \A partial \in last'.arg :
                     \E new \in sports' :
                        /\ new.id = old.id
                        /\ last'.ret = {new}
                        /\ new.updatedAt \in Now
                        /\ \A f \in DOMAIN old \ {"updatedAt"} :
                              new[f] = IF f \in DOMAIN partial /\ partial[f] # Unset
                                       THEN partial[f] ELSE old[f]
      ]_vars

\* A stored sport has been renamed: its category is the one it was added with
\* and its updatedAt is later than its createdAt.
C15_Witness ==
    /\ last.op = "updateSport" /\ last.ok
    /\ \E r \in sports :
          /\ r.id = last.id
          /\ r.name = "Chess"
          /\ r.category = "Team Sports"
          /\ r.updatedAt > r.createdAt

\* C16: init() adds the five starter sports when the sports store is empty,
\* adds no sport when the store holds one or more, and never changes the
\* members or the subscriptions store.
C16_SeedsOnlyWhenEmpty ==
    [][ (last'.op = "init" /\ Idle) =>
          /\ last'.ok /\ db'
          /\ members' = members
          /\ subscriptions' = subscriptions
          /\ sports # {} => sports' = sports
          /\ sports = {} =>
                /\ Cardinality(sports') = Len(InitialSports)
                /\ \A i \in DOMAIN InitialSports :
                      \E r \in sports' :
                         \A f \in DOMAIN InitialSports[i] : r[f] = InitialSports[i][f]
      ]_vars

\* A second init() has settled on a store that held four of the starter
\* sports: it still holds the four.
C16_Witness ==
    /\ last.op = "init" /\ last.ok
    /\ ops = 3
    /\ Cardinality(sports) = Len(InitialSports) - 1

\* C17: whenever subscribeMemberToSport(m, s) stores a record, the members
\* store holds m and the sports store holds s at that moment.
C17_SubscribedToStoredRecords ==
    [][ (Settles("subscribeMemberToSport") /\ last'.ok) =>
          /\ ById(members, last'.m) # {}
          /\ ById(sports, last'.s) # {}
      ]_vars

\* ------------------------------------------- claims on overlapping calls
\* A step that issues a call.
Invoked == ops' = ops + 1
InitInvoked == \E t \in Tasks : calls[t] = Free /\ calls'[t].op = "init"

\* A step that issues a call other than init() and close().
StoreOpInvoked == Invoked /\ ~InitInvoked /\ last'.op # "close"

\* Every read rejects with 'Database not initialized. Call init() first.'
ReadsRejected ==
    LET rejected == Rejected(ErrNotInitialized)
    IN  /\ GetAllSports = rejected
        /\ GetAllMembers = rejected
        /\ GetAllSubscriptions = rejected
        /\ \A id \in AnyId :
              /\ GetSport(id) = rejected
              /\ GetMember(id) = rejected
              /\ GetMemberSubscriptions(id) = rejected
              /\ GetSportSubscriptions(id) = rejected
              /\ GetMemberWithSports(id) = rejected
              /\ GetSportWithMembers(id) = rejected
              /\ \A s \in AnyId : EnsuredGetSubscription(id, s) = rejected

\* Every read resolves.
ReadsResolve ==
    /\ GetAllSports.ok /\ GetAllMembers.ok /\ GetAllSubscriptions.ok
    /\ \A id \in AnyId :
          /\ GetSport(id).ok
          /\ GetMember(id).ok
          /\ GetMemberSubscriptions(id).ok
          /\ GetSportSubscriptions(id).ok
          /\ GetMemberWithSports(id).ok
          /\ GetSportWithMembers(id).ok
          /\ \A s \in AnyId : EnsuredGetSubscription(id, s).ok

\* The call fails with the NotInitialized error and nothing has changed.
FailsNotInitialized ==
    /\ ~last'.ok /\ last'.error = ErrNotInitialized
    /\ stores' = stores
    /\ calls' = calls

\* What C13 says of close() and of a later init(): close() keeps the stores,
\* opening the database keeps them, and on the open database no call fails
\* with NotInitialized and every read resolves.
WorksOnPersistedData ==
    /\ last'.op = "close" /\ Idle => ~db' /\ stores' = stores
    /\ ~db /\ db' => stores' = stores
    /\ StoreOpInvoked /\ db => last'.error # ErrNotInitialized
    /\ db' => ReadsResolve'

\* The first call of the run is an init() that has not completed.
FirstInitUnfinished == ops = 1 /\ \E t \in Tasks : calls[t].op = "init"

\* C13 as stated: a store operation invoked before init() has completed, or
\* after close(), fails with NotInitialized and changes no collection, and
\* so does every read; after a later init() the operations work on the
\* persisted data.
C13_FailsUntilInitCompletes ==
    [][ /\ StoreOpInvoked /\ (~db \/ FirstInitUnfinished) => FailsNotInitialized
        /\ ~db' => ReadsRejected'
        /\ WorksOnPersistedData
      ]_vars

\* C13: a store operation invoked while the service holds no open database
\* (before an init() has opened it, or after close()) fails with
\* NotInitialized and changes no collection, and so does every read; after a
\* later init() the operations work on the persisted data.
C13_FailsUntilInitOpens ==
    [][ /\ StoreOpInvoked /\ ~db => FailsNotInitialized
        /\ ~db' => ReadsRejected'
        /\ WorksOnPersistedData
      ]_vars

\* A call has failed with NotInitialized after close(), the starter sports
\* still in the closed database.
C13_Witness ==
    /\ ~db /\ Quiet
    /\ last.op \notin {"", "init", "close"}
    /\ ~last.ok /\ last.error = ErrNotInitialized
    /\ Cardinality(sports) = Len(InitialSports)

\* C18: the insert of a subscribeMemberToSport(m, s) succeeds exactly when no
\* record of (m, s) is stored at that moment, and otherwise fails and changes
\* nothing; so of two calls whose checks both ran before either insert, the
\* second to insert fails, and no state holds two records of one pair.
C18_OverlappingSubscribes ==
    [][ \A t \in Tasks :
          (calls[t].op = "subscribeMemberToSport" /\ calls'[t] = Free) =>
             LET rows == OfPair(subscriptions, calls[t].m, calls[t].s)
             IN  /\ last'.op = "subscribeMemberToSport"
                 /\ last'.ok <=> rows = {}
                 /\ ~last'.ok => /\ last'.error = ErrConstraint
                                 /\ subscriptions' = subscriptions
                 /\ \A r1, r2 \in subscriptions' :
                       (r1.memberId = r2.memberId /\ r1.sportId = r2.sportId)
                          => r1 = r2
      ]_vars

\* A subscribeMemberToSport(m, s) passed its check, found the pair's active
\* record at its insert, and failed: the record is another call's, inserted
\* between the two.
C18_Witness ==
    /\ last.op = "subscribeMemberToSport"
    /\ ~last.ok /\ last.error = ErrConstraint
    /\ \E r \in subscriptions :
          r.memberId = last.m /\ r.sportId = last.s /\ r.status = "active"

\* The database holds what init() calls seeded and nothing else.
StarterRecord(r) ==
    \E i \in DOMAIN InitialSports :
       \A f \in DOMAIN InitialSports[i] : r[f] = InitialSports[i][f]

OnlySeeded ==
    /\ members = {} /\ subscriptions = {}
    /\ issued = Cardinality(sports)
    /\ \A r \in sports : StarterRecord(r)

\* C20: once every init() call has completed on a database that only init()
\* has written to, the sports store holds five sports, one per starter name.
C20_SeededOnce ==
    (db /\ Quiet /\ sports # {} /\ OnlySeeded) =>
       /\ Cardinality(sports) = Len(InitialSports)
       /\ \A i \in DOMAIN InitialSports :
             Cardinality({r \in sports : r.name = InitialSports[i].name}) = 1

\* ---------------------------------------------------- claims on the hooks
\* The mutations a hook offers, and the list it should show.
MutationsOf(h) ==
    IF h = "useSports" THEN {"addSport", "deleteSport"}
    ELSE IF h = "useMembers" THEN {"addMember", "deleteMember"}
    ELSE {"subscribeMemberToSport", "cancelSubscription"}

StoreList(h) ==
    IF h = "useSports" THEN InKeyOrder(sports)
    ELSE IF h = "useMembers" THEN InKeyOrder(members)
    ELSE InKeyOrder({r \in subscriptions : r.status = "active"})

\* C19: when a mutation issued through a hook has succeeded and its reload
\* has settled, the hook's list is the store's collection (the active
\* subscriptions for useSubscriptions); when the mutation has failed, the
\* hook's list is as before and the hook's error is set.
C19_HookListFollowsStore ==
    [][ \A h \in HookNames :
          (Idle /\ last'.op \in MutationsOf(h)) =>
             IF last'.ok
             THEN hook'[h].list = StoreList(h)'
             ELSE /\ hook'[h].list = hook[h].list
                  /\ hook'[h].error # NoError
      ]_vars

\* A cancel through useSubscriptions has succeeded: the cancelled record is
\* stored and the hook's list is empty.
C19_Witness ==
    /\ last.op = "cancelSubscription" /\ last.ok
    /\ subscriptions # {}
    /\ hook["useSubscriptions"].list = <<>>
    /\ hook["useSubscriptions"].error = NoError

\* ------------------------------------------------- claims C21 to C23
\* An id that randomUUID has handed out and that the store does not hold:
\* the id of a record that was removed (or of one whose add was rejected).
\* C21: no step brings such an id back into the sports, the members or the
\* subscriptions store; a record removed by a completed delete or clear is
\* not re-inserted by the write of an overlapping update or cancel.
C21_RemovedStaysRemoved ==
    [][ \A id \in Ids : id <= issued =>
          /\ ById(sports, id) = {} => ById(sports', id) = {}
          /\ ById(members, id) = {} => ById(members', id) = {}
          /\ ById(subscriptions, id) = {} => ById(subscriptions', id) = {}
      ]_vars

\* C22: cancelSubscription(m, s) on a pair whose record is already cancelled
\* succeeds, the record stays cancelled (only updatedAt moves), and the
\* subscriptions store holds as many records as before.
C22_CancelTwice ==
    [][ Settles("cancelSubscription") =>
          \A old \in subscriptions :
             (old.memberId = last'.m /\ old.sportId = last'.s
                  /\ old.status = "cancelled") =>
                /\ last'.ok
                /\ Cardinality(subscriptions') = Cardinality(subscriptions)
                /\ \E new \in subscriptions' :
                      /\ last'.ret = {new}
                      /\ new.status = "cancelled"
                      /\ \A f \in DOMAIN old \ {"updatedAt"} : new[f] = old[f]
                /\ {r \in subscriptions' : r.id # old.id}
                      = {r \in subscriptions : r.id # old.id}
      ]_vars

\* The state after init(), subscribeMemberToSport(m, s), cancelSubscription(m, s)
\* and cancelSubscription(m, s) again: the fourth call has succeeded on the
\* record the second call stored, and the record is cancelled.
C22_Witness ==
    /\ last.op = "cancelSubscription" /\ last.ok
    /\ ops = 4 /\ issued = Len(InitialSports) + 1
    /\ \E r \in subscriptions :
          /\ last.ret = {r}
          /\ r.status = "cancelled"
          /\ r.createdAt = 2
          /\ r.updatedAt = 4

\* C23: with the database open, every entry of getMemberWithSports(m).sports
\* is a record of the sports store, every entry of
\* getSportWithMembers(s).members is a record of the members store, and
\* neither list is longer than the view's list of active subscriptions.
C23_ViewsHoldStoredRecords ==
    db => \A id \in AnyId :
             /\ \A v \in GetMemberWithSports(id).ret :
                   /\ Range(v.sports) \subseteq sports
                   /\ Len(v.sports) <= Len(v.subscriptions)
             /\ \A v \in GetSportWithMembers(id).ret :
                   /\ Range(v.members) \subseteq members
                   /\ Len(v.members) <= Len(v.subscriptions)

\* A member's active subscription refers to a sport that is no longer
\* stored: the view lists the subscription and no sport.
C23_Witness ==
    /\ db
    /\ \E member \in members :
          \E v \in GetMemberWithSports(member.id).ret :
             /\ Len(v.subscriptions) = 1
             /\ v.sports = <<>>
             /\ ById(sports, v.subscriptions[1].sportId) = {}

====
